---- MODULE Spec2Model ----
(***************************************************************************)
(* Model of src/MyComponent.jsx: the InputField control (one instance,     *)
(* its props supplied and changed by the caller, its two pieces of hook    *)
(* state, its event handlers and what it renders) and the InputDemo        *)
(* harness (its values map and theme, driven through the InputField        *)
(* instances it renders).                                                  *)
(*                                                                         *)
(* Texts are strings.  An optional text prop that was not supplied is the  *)
(* value Undefined.  Callback props are modelled by whether they were      *)
(* supplied; what the control passes to them is recorded in `emitted`.     *)
(***************************************************************************)
EXTENDS Naturals, Sequences, FiniteSets, TLC

VARIABLES
  props,        \* the configuration the caller rendered the control with
  showPassword, \* useState(false), line 42
  isFocused,    \* useState(false), line 43
  event,        \* the last event the control handled
  emitted,      \* the callbacks the control invoked while handling it
  toggleRun,    \* what the input showed before each click of the current
                \* run of consecutive reveal-toggle clicks (last two kept)
  values,       \* InputDemo: scenario name -> stored text, line 206
  theme,        \* InputDemo: page theme, line 215
  demoEvent     \* InputDemo: the last event the harness handled

vars == <<props, showPassword, isFocused, event, emitted, toggleRun,
          values, theme, demoEvent>>

fieldVars == <<props, showPassword, isFocused, event, emitted, toggleRun>>
demoVars == <<values, theme, demoEvent>>

----------------------------------------------------------------------------
(* Bounds and domains *)

MaxTextLen == 1

RECURSIVE Rep(_)
Rep(n) == IF n = 0 THEN "" ELSE Rep(n - 1) \o "a"

\* the texts a caller supplies or a user types: "", "a", ...
Texts == {Rep(n) : n \in 0..MaxTextLen}

\* an optional prop the caller did not supply
Undefined == "undefined"

OptTexts == Texts \cup {Undefined}

\* the declared enumerations, plus one value outside the declared variants
Variants == {"filled", "outlined", "ghost", "unrecognized"}
Sizes == {"sm", "md", "lg"}
Types == {"text", "email", "password"}

\* JavaScript truthiness of an optional string
Truthy(s) == s # Undefined /\ s # ""

\* what React renders for a text child: nothing for undefined or ''
TextOf(s) == IF s = Undefined THEN "" ELSE s

\* The props the control's logic reads.  `size` only selects the padding and
\* icon classes of lines 54-64; it is passed to the operators below that have
\* it in scope rather than kept in `props`.  label, placeholder, theme and
\* className are rendered as given and read by nothing else.
PropDomain ==
  [ value           |-> Texts,
    helperText      |-> OptTexts,
    errorMessage    |-> OptTexts,
    disabled        |-> BOOLEAN,
    invalid         |-> BOOLEAN,
    loading         |-> BOOLEAN,
    variant         |-> Variants,
    type            |-> Types,
    showClearButton |-> BOOLEAN,
    onChange        |-> BOOLEAN,
    onClear         |-> BOOLEAN ]

PropsSpace ==
  [ value : Texts, helperText : OptTexts, errorMessage : OptTexts,
    disabled : BOOLEAN, invalid : BOOLEAN, loading : BOOLEAN,
    variant : Variants, type : Types,
    showClearButton : BOOLEAN, onChange : BOOLEAN, onClear : BOOLEAN ]

\* the destructuring defaults of lines 24-39
DefaultSize == "md"

DefaultProps ==
  [ value |-> "", helperText |-> Undefined, errorMessage |-> Undefined,
    disabled |-> FALSE, invalid |-> FALSE, loading |-> FALSE,
    variant |-> "outlined", type |-> "text",
    showClearButton |-> FALSE, onChange |-> FALSE, onClear |-> FALSE ]

\* useId(): three identifiers, distinct from each other
inputId == "inputId"
helperTextId == "helperTextId"
errorId == "errorId"

----------------------------------------------------------------------------
(* What one render of InputField computes *)

isPassword(p) == p.type = "password"

inputType_ignoreReveal(p, sp) == p.type

inputType(p, sp) ==
  IF isPassword(p) THEN (IF sp THEN "text" ELSE "password") ELSE p.type

hasError(p) == p.invalid \/ Truthy(p.errorMessage)

hasValue(p) == Truthy(p.value) /\ Len(p.value) > 0

baseClasses ==
  "w-full rounded-lg border transition-all duration-200 focus:outline-none focus:ring-2"

DisabledClasses ==
  baseClasses \o " opacity-50 cursor-not-allowed bg-gray-100 border-gray-200 text-gray-400"

ErrorFilledClasses ==
  baseClasses \o " bg-red-50 border-red-200 text-red-900 focus:ring-red-500 focus:border-red-500"

ErrorGhostClasses ==
  baseClasses \o " bg-transparent border-transparent border-b-red-500 border-b-2 rounded-none focus:ring-red-500 focus:border-b-red-500"

ErrorOutlinedClasses ==
  baseClasses \o " bg-white border-red-300 text-gray-900 focus:ring-red-500 focus:border-red-500"

\* the switch of lines 75-82
ErrorClasses(variant) ==
  CASE variant = "filled" -> ErrorFilledClasses
    [] variant = "ghost" -> ErrorGhostClasses
    [] OTHER -> ErrorOutlinedClasses

FilledClasses ==
  baseClasses \o " bg-gray-100 border-gray-200 text-gray-900 focus:ring-blue-500 focus:border-blue-500 hover:bg-gray-50"

GhostClasses ==
  baseClasses \o " bg-transparent border-transparent border-b-gray-300 border-b-2 rounded-none focus:ring-blue-500 focus:border-b-blue-500 hover:border-b-gray-400"

OutlinedClasses ==
  baseClasses \o " bg-white border-gray-300 text-gray-900 focus:ring-blue-500 focus:border-blue-500 hover:border-gray-400"

\* the switch of lines 85-92
NormalClasses(variant) ==
  CASE variant = "filled" -> FilledClasses
    [] variant = "ghost" -> GhostClasses
    [] OTHER -> OutlinedClasses

\* a slip that tests the error condition before the disabled flag
getVariantClasses_errorFirst(p, sz, sp, foc) ==
  IF hasError(p) THEN ErrorClasses(p.variant)
  ELSE IF p.disabled THEN DisabledClasses
  ELSE NormalClasses(p.variant)

\* the closure of lines 67-93, given everything in its scope: the props, the
\* size, the reveal flag and the focus flag
getVariantClasses(p, sz, sp, foc) ==
  IF p.disabled THEN DisabledClasses
  ELSE IF hasError(p) THEN ErrorClasses(p.variant)
  ELSE NormalClasses(p.variant)

AriaInvalid(p) == hasError(p)

AriaDescribedBy_helperFirst(p) ==
  IF Truthy(p.helperText) THEN helperTextId
  ELSE IF hasError(p) THEN errorId
  ELSE Undefined

AriaDescribedBy(p) ==
  IF hasError(p) THEN errorId
  ELSE IF Truthy(p.helperText) THEN helperTextId
  ELSE Undefined

RenderedValue(p) == p.value

LoadingSpinnerRendered(p) == p.loading

ClearButtonRendered_whenDisabled(p) ==
  p.showClearButton /\ hasValue(p) /\ ~p.loading

ClearButtonRendered(p) ==
  p.showClearButton /\ hasValue(p) /\ ~p.loading /\ ~p.disabled

PasswordToggleRendered(p) == isPassword(p) /\ ~p.loading

FooterRendered(p) == Truthy(p.helperText) \/ Truthy(p.errorMessage)

FooterId(p) == IF hasError(p) THEN errorId ELSE helperTextId

FooterContent_helperFirst(p) ==
  IF Truthy(p.helperText) THEN p.helperText ELSE p.errorMessage

FooterContent(p) == IF hasError(p) THEN p.errorMessage ELSE p.helperText

\* the text a user reads in the footer region; none when there is no footer
FooterShown(p) == IF FooterRendered(p) THEN TextOf(FooterContent(p)) ELSE ""

\* the identifiers of the elements the render contains
RenderedIds(p) ==
  {inputId} \cup (IF FooterRendered(p) THEN {FooterId(p)} ELSE {})

----------------------------------------------------------------------------
(* Callbacks *)

ChangeNote(t) == [kind |-> "change", text |-> t]
ClearNote == [kind |-> "clear", text |-> ""]

handleClear_both(p) ==
  (IF p.onClear THEN <<ClearNote>> ELSE <<>>)
    \o (IF p.onChange THEN <<ChangeNote("")>> ELSE <<>>)

\* lines 98-107: the callbacks handleClear invokes, in order
handleClear(p) ==
  IF p.onClear THEN <<ClearNote>>
  ELSE IF p.onChange THEN <<ChangeNote("")>>
  ELSE <<>>

\* the run of reveal-toggle clicks, extended by a click made now
PushRun(run, entry) ==
  IF Len(run) < 2 THEN Append(run, entry) ELSE <<run[2], entry>>

----------------------------------------------------------------------------
(* InputField: events *)

FieldInit ==
  /\ props \in PropsSpace
  /\ showPassword = FALSE
  /\ isFocused = FALSE
  /\ event = "mount"
  /\ emitted = <<>>
  /\ toggleRun = <<>>

\* the caller re-renders the control with one prop changed
SetProp(k, v) ==
  /\ v # props[k]
  /\ props' = [props EXCEPT ![k] = v]
  /\ event' = "props"
  /\ emitted' = <<>>
  /\ toggleRun' = <<>>
  /\ UNCHANGED <<showPassword, isFocused>>

\* the user edits the text: the native change event reaches props.onChange
Type(t) ==
  /\ ~props.disabled
  /\ t # props.value
  /\ event' = "type"
  /\ emitted' = IF props.onChange THEN <<ChangeNote(t)>> ELSE <<>>
  /\ toggleRun' = <<>>
  /\ UNCHANGED <<props, showPassword, isFocused>>

ClickClear ==
  /\ ClearButtonRendered(props)
  /\ event' = "clear"
  /\ emitted' = handleClear(props)
  /\ toggleRun' = <<>>
  /\ UNCHANGED <<props, showPassword, isFocused>>

ClickToggle_stuck ==
  /\ PasswordToggleRendered(props)
  /\ showPassword' = TRUE
  /\ event' = "toggle"
  /\ emitted' = <<>>
  /\ toggleRun' = PushRun(toggleRun,
                          [type |-> inputType(props, showPassword),
                           value |-> RenderedValue(props)])
  /\ UNCHANGED <<props, isFocused>>

\* line 173
ClickToggle ==
  /\ PasswordToggleRendered(props)
  /\ showPassword' = ~showPassword
  /\ event' = "toggle"
  /\ emitted' = <<>>
  /\ toggleRun' = PushRun(toggleRun,
                          [type |-> inputType(props, showPassword),
                           value |-> RenderedValue(props)])
  /\ UNCHANGED <<props, isFocused>>

\* line 145
Focus ==
  /\ ~props.disabled
  /\ ~isFocused
  /\ isFocused' = TRUE
  /\ event' = "focus"
  /\ emitted' = <<>>
  /\ toggleRun' = <<>>
  /\ UNCHANGED <<props, showPassword>>

Blur_resetsReveal ==
  /\ isFocused
  /\ isFocused' = FALSE
  /\ showPassword' = FALSE
  /\ event' = "blur"
  /\ emitted' = <<>>
  /\ toggleRun' = <<>>
  /\ UNCHANGED <<props>>

\* line 146
Blur ==
  /\ isFocused
  /\ isFocused' = FALSE
  /\ event' = "blur"
  /\ emitted' = <<>>
  /\ toggleRun' = <<>>
  /\ UNCHANGED <<props, showPassword>>

----------------------------------------------------------------------------
(* InputDemo: the harness and the InputField instances it renders *)

Fields == {"basic", "email", "password", "disabled", "error", "loading"}

\* line 206
InitialValues ==
  [ basic |-> "", email |-> "", password |-> "",
    disabled |-> "Disabled input", error |-> "Invalid value",
    loading |-> "Loading..." ]

\* the eleven <InputField> elements of lines 253-367: the scenario each is
\* bound to ("none" for the size gallery) and the props set on it
Instances ==
  << [field |-> "basic",    bound |-> TRUE,
      set |-> [DefaultProps EXCEPT !.onChange = TRUE,
                 !.helperText = "This is helper text",
                 !.showClearButton = TRUE, !.onClear = TRUE]],
     [field |-> "basic",    bound |-> TRUE,
      set |-> [DefaultProps EXCEPT !.onChange = TRUE, !.variant = "filled"]],
     [field |-> "basic",    bound |-> TRUE,
      set |-> [DefaultProps EXCEPT !.onChange = TRUE, !.variant = "ghost"]],
     [field |-> "none",     bound |-> FALSE,
      set |-> DefaultProps],
     [field |-> "none",     bound |-> FALSE,
      set |-> DefaultProps],
     [field |-> "none",     bound |-> FALSE,
      set |-> DefaultProps],
     [field |-> "email",    bound |-> TRUE,
      set |-> [DefaultProps EXCEPT !.type = "email", !.onChange = TRUE,
                 !.showClearButton = TRUE, !.onClear = TRUE]],
     [field |-> "password", bound |-> TRUE,
      set |-> [DefaultProps EXCEPT !.type = "password", !.onChange = TRUE]],
     [field |-> "disabled", bound |-> TRUE,
      set |-> [DefaultProps EXCEPT !.disabled = TRUE]],
     [field |-> "error",    bound |-> TRUE,
      set |-> [DefaultProps EXCEPT !.onChange = TRUE, !.invalid = TRUE,
                 !.errorMessage = "This field is required"]],
     [field |-> "loading",  bound |-> TRUE,
      set |-> [DefaultProps EXCEPT !.onChange = TRUE, !.loading = TRUE,
                 !.helperText = "Processing your request..."]] >>

\* the props instance i is rendered with, given the harness state
InstanceProps(i, vals) ==
  IF Instances[i].bound
    THEN [Instances[i].set EXCEPT !.value = vals[Instances[i].field]]
    ELSE Instances[i].set

handleChangeDemo_dropsRest(vals, field, text) ==
  [f \in Fields |-> IF f = field THEN text ELSE ""]

\* lines 217-219: setValues(prev => ({ ...prev, [field]: e.target.value }))
handleChangeDemo(vals, field, text) == [vals EXCEPT ![field] = text]

\* lines 221-223: setValues(prev => ({ ...prev, [field]: '' }))
handleClearDemo(vals, field) == [vals EXCEPT ![field] = ""]

\* line 237
toggleTheme(th) == IF th = "light" THEN "dark" ELSE "light"

\* the harness callback a control bound to `field` reaches with one note
Deliver(vals, field, note) ==
  IF note.kind = "clear" THEN handleClearDemo(vals, field)
  ELSE handleChangeDemo(vals, field, note.text)

RECURSIVE DeliverAll(_, _, _)
DeliverAll(vals, field, notes) ==
  IF notes = <<>> THEN vals
  ELSE DeliverAll(Deliver(vals, field, Head(notes)), field, Tail(notes))

DemoInit ==
  /\ values = InitialValues
  /\ theme = "light"
  /\ demoEvent = [kind |-> "mount", field |-> "none", text |-> ""]

\* the user edits the text of instance i, which passes the change event to
\* handleChange(field)
DemoType(i, t) ==
  LET p == InstanceProps(i, values) IN
  /\ ~p.disabled
  /\ p.onChange
  /\ t # p.value
  /\ values' = DeliverAll(values, Instances[i].field, <<ChangeNote(t)>>)
  /\ demoEvent' = [kind |-> "change", field |-> Instances[i].field, text |-> t]
  /\ UNCHANGED theme

\* the user clicks the clear button of instance i
DemoClickClear(i) ==
  LET p == InstanceProps(i, values) IN
  /\ ClearButtonRendered(p)
  /\ handleClear(p) # <<>>
  /\ values' = DeliverAll(values, Instances[i].field, handleClear(p))
  /\ demoEvent' = [kind |-> Head(handleClear(p)).kind,
                   field |-> Instances[i].field, text |-> ""]
  /\ UNCHANGED theme

DemoToggleTheme ==
  /\ theme' = toggleTheme(theme)
  /\ demoEvent' = [kind |-> "theme", field |-> "none", text |-> ""]
  /\ UNCHANGED values

----------------------------------------------------------------------------
(* Specifications *)

\* one InputField under an arbitrary caller
Init == FieldInit /\ DemoInit

Next ==
  \/ (\E k \in DOMAIN PropDomain : \E v \in PropDomain[k] : SetProp(k, v))
       /\ UNCHANGED demoVars
  \/ (\E t \in Texts : Type(t)) /\ UNCHANGED demoVars
  \/ ClickClear /\ UNCHANGED demoVars
  \/ ClickToggle /\ UNCHANGED demoVars
  \/ Focus /\ UNCHANGED demoVars
  \/ Blur /\ UNCHANGED demoVars

Spec == Init /\ [][Next]_vars

\* the InputDemo harness
InitDemo ==
  /\ DemoInit
  /\ props = DefaultProps
  /\ showPassword = FALSE
  /\ isFocused = FALSE
  /\ event = "mount"
  /\ emitted = <<>>
  /\ toggleRun = <<>>

NextDemo ==
  \/ (\E i \in DOMAIN Instances : \E t \in Texts : DemoType(i, t))
       /\ UNCHANGED fieldVars
  \/ (\E i \in DOMAIN Instances : DemoClickClear(i)) /\ UNCHANGED fieldVars
  \/ DemoToggleTheme /\ UNCHANGED fieldVars

SpecDemo == InitDemo /\ [][NextDemo]_vars

----------------------------------------------------------------------------
(* Properties *)

\* C1: in every configuration, when invalid is true or errorMessage is
\* non-empty the input carries aria-invalid and the text shown in the footer
\* region is the error message, never the helper text; when the error
\* condition is false and helperText is non-empty the footer is rendered and
\* shows exactly helperText; otherwise no footer is rendered.
C1_FooterPrecedence ==
  /\ hasError(props) =>
       /\ AriaInvalid(props)
       /\ FooterShown(props) = TextOf(props.errorMessage)
       /\ (Truthy(props.errorMessage) => FooterRendered(props))
       /\ (Truthy(props.helperText)
             /\ props.helperText # TextOf(props.errorMessage)
           => FooterShown(props) # props.helperText)
  /\ (~hasError(props) /\ Truthy(props.helperText)) =>
       /\ FooterRendered(props)
       /\ FooterShown(props) = props.helperText
  /\ (~hasError(props) /\ ~Truthy(props.helperText)) =>
       ~FooterRendered(props)

C1_Witness ==
  /\ props.invalid
  /\ Truthy(props.helperText)
  /\ Truthy(props.errorMessage)
  /\ FooterRendered(props)
  /\ event = "props"

\* C2: the clear button is rendered exactly when showClearButton is true,
\* the current value is non-empty, loading is false and disabled is false,
\* whatever the type, the reveal flag, the focus flag and the error
\* condition are.
C2_ClearButtonIff ==
  ClearButtonRendered(props) <=>
    (props.showClearButton /\ props.value # "" /\ ~props.loading
       /\ ~props.disabled)

C2_Witness ==
  /\ ClearButtonRendered(props)
  /\ isPassword(props)
  /\ showPassword
  /\ isFocused
  /\ hasError(props)

\* C3: for type=password, a reveal-toggle click invokes neither onChange nor
\* onClear and leaves the value passed to the input unchanged; one click
\* changes the rendered type (password to text), and the second of two
\* consecutive clicks returns it to what it was before the first.
C3_RevealRoundTrip ==
  /\ event = "toggle" =>
       /\ emitted = <<>>
       /\ isPassword(props)
       /\ Len(toggleRun) >= 1
       /\ \A i \in 1..Len(toggleRun) :
            toggleRun[i].value = RenderedValue(props)
  /\ Len(toggleRun) >= 1 =>
       /\ inputType(props, showPassword) # toggleRun[Len(toggleRun)].type
       /\ (toggleRun[Len(toggleRun)].type = "password"
             => inputType(props, showPassword) = "text")
  /\ Len(toggleRun) = 2 =>
       inputType(props, showPassword) = toggleRun[1].type

C3_Witness ==
  /\ Len(toggleRun) = 2
  /\ toggleRun[1].type = "password"
  /\ inputType(props, showPassword) = "password"
  /\ props.value # ""
  /\ props.onChange

\* C4 as stated: the rendered type is password only when type=password and
\* the reveal flag is false; otherwise it is the declared type.
C4_Original ==
  IF isPassword(props) /\ ~showPassword
    THEN inputType(props, showPassword) = "password"
    ELSE inputType(props, showPassword) = props.type

\* C4 as amended: the rendered type is password exactly when type=password
\* and the reveal flag is false; it is text when type=password and the
\* reveal flag is true; it is the declared type when type is not password.
C4_EffectiveType ==
  /\ (inputType(props, showPassword) = "password")
       <=> (props.type = "password" /\ ~showPassword)
  /\ (props.type = "password" /\ showPassword)
       => inputType(props, showPassword) = "text"
  /\ props.type # "password" => inputType(props, showPassword) = props.type

C4_Witness ==
  /\ props.type = "password"
  /\ showPassword
  /\ inputType(props, showPassword) = "text"
  /\ event = "focus"

\* C5 as stated: a clear click invokes onClear and not onChange when onClear
\* is supplied, emits exactly one change notification with the empty text
\* when onClear is not supplied, and changes neither flag.
C5_Original ==
  [][event' = "clear" =>
       /\ (props.onClear => emitted' = <<ClearNote>>)
       /\ (~props.onClear => emitted' = <<ChangeNote("")>>)
       /\ showPassword' = showPassword
       /\ isFocused' = isFocused]_vars

\* C5 as amended: a clear click invokes onClear and not onChange when
\* onClear is supplied; when onClear is not supplied and onChange is, it
\* emits exactly one change notification with the empty text; when neither
\* is supplied it invokes nothing; it changes neither flag.
C5_ClearClick ==
  [][event' = "clear" =>
       /\ (props.onClear => emitted' = <<ClearNote>>)
       /\ (~props.onClear /\ props.onChange
             => emitted' = <<ChangeNote("")>>)
       /\ (~props.onClear /\ ~props.onChange => emitted' = <<>>)
       /\ showPassword' = showPassword
       /\ isFocused' = isFocused]_vars

C5_Witness ==
  /\ event = "clear"
  /\ ~props.onClear
  /\ props.onChange
  /\ emitted = <<ChangeNote("")>>
  /\ showPassword
  /\ isFocused

\* the fixed set of class combinations
StyleSet ==
  { DisabledClasses, ErrorFilledClasses, ErrorGhostClasses,
    ErrorOutlinedClasses, FilledClasses, GhostClasses, OutlinedClasses }

\* C6: the style is one of the fixed combinations; it is the same for every
\* size, reveal flag and focus flag, and does not change when the value,
\* type, loading flag or the way the error condition arises is changed (one
\* at a time, from every reachable state, so also together); a disabled
\* control gets the disabled style; a variant other than filled or ghost
\* gets the outlined style.
C6_StylePure ==
  LET s == getVariantClasses(props, DefaultSize, showPassword, isFocused) IN
  /\ s \in StyleSet
  /\ \A z \in Sizes, r \in BOOLEAN, f \in BOOLEAN :
       getVariantClasses(props, z, r, f) = s
  /\ \A v \in Texts, z \in Sizes :
       getVariantClasses([props EXCEPT !.value = v], z, showPassword, isFocused) = s
  /\ \A t \in Types, z \in Sizes :
       getVariantClasses([props EXCEPT !.type = t], z, showPassword, isFocused) = s
  /\ \A l \in BOOLEAN, z \in Sizes :
       getVariantClasses([props EXCEPT !.loading = l], z, showPassword, isFocused) = s
  /\ \A i \in BOOLEAN, m \in OptTexts :
       LET q == [props EXCEPT !.invalid = i, !.errorMessage = m] IN
       hasError(q) = hasError(props)
         => getVariantClasses(q, DefaultSize, showPassword, isFocused) = s
  /\ props.disabled => s = DisabledClasses
  /\ props.variant \notin {"filled", "ghost"} =>
       s = getVariantClasses([props EXCEPT !.variant = "outlined"],
                             DefaultSize, showPassword, isFocused)

C6_Witness ==
  /\ props.disabled
  /\ hasError(props)
  /\ props.variant = "ghost"
  /\ getVariantClasses(props, "lg", showPassword, isFocused) = DisabledClasses
  /\ showPassword
  /\ isFocused

\* C7: when the error condition holds the input is aria-invalid and its
\* aria-describedby is the error identifier; otherwise, with helper text,
\* aria-describedby is the helper identifier; otherwise there is none.
C7_AriaContract ==
  /\ hasError(props) =>
       AriaInvalid(props) /\ AriaDescribedBy(props) = errorId
  /\ (~hasError(props) /\ Truthy(props.helperText)) =>
       ~AriaInvalid(props) /\ AriaDescribedBy(props) = helperTextId
  /\ (~hasError(props) /\ ~Truthy(props.helperText)) =>
       ~AriaInvalid(props) /\ AriaDescribedBy(props) = Undefined

C7_Witness ==
  /\ props.invalid
  /\ ~Truthy(props.errorMessage)
  /\ Truthy(props.helperText)
  /\ AriaDescribedBy(props) = errorId

\* C8: in the harness a change event for scenario f stores the event's text
\* under f, a clear action for f stores the empty text under f, both leave
\* every other scenario and the theme as they were, and a theme toggle
\* changes no stored text.
C8_DemoFrame ==
  [][/\ demoEvent'.kind = "change" =>
          /\ values'[demoEvent'.field] = demoEvent'.text
          /\ \A g \in Fields \ {demoEvent'.field} : values'[g] = values[g]
          /\ theme' = theme
     /\ demoEvent'.kind = "clear" =>
          /\ values'[demoEvent'.field] = ""
          /\ \A g \in Fields \ {demoEvent'.field} : values'[g] = values[g]
          /\ theme' = theme
     /\ demoEvent'.kind = "theme" =>
          /\ values' = values
          /\ theme' # theme
     /\ DOMAIN values' = Fields]_vars

C8_Witness ==
  /\ demoEvent.kind = "clear"
  /\ demoEvent.field = "basic"
  /\ values["basic"] = ""
  /\ values["email"] # ""
  /\ values["error"] # InitialValues["error"]
  /\ theme = "dark"

\* C9: the reveal flag changes only on a reveal-toggle click, which flips it
\* and emits nothing; the focus flag changes only on focus (to true) and
\* blur (to false); typing, clear clicks and configuration changes leave
\* both flags as they were; no event of the control changes the value it
\* displays, which is the caller-supplied value.
C9_SingleWriter ==
  [][/\ showPassword' # showPassword => event' = "toggle"
     /\ event' = "toggle" =>
          showPassword' = ~showPassword /\ emitted' = <<>>
     /\ isFocused' # isFocused => event' \in {"focus", "blur"}
     /\ event' = "focus" => isFocused'
     /\ event' = "blur" => ~isFocused'
     /\ event' \in {"type", "clear", "props"} =>
          showPassword' = showPassword /\ isFocused' = isFocused
     /\ event' # "props" =>
          /\ props'.value = props.value
          /\ RenderedValue(props') = RenderedValue(props)
     /\ RenderedValue(props') = props'.value]_vars

C9_Witness ==
  /\ event = "type"
  /\ emitted # <<>>
  /\ showPassword
  /\ isFocused
  /\ props.value # ""

\* C10: whenever the input carries an aria-describedby identifier, an
\* element with that identifier is rendered, and a rendered footer carries
\* the identifier the input references.
C10_DescribedByResolves ==
  /\ AriaDescribedBy(props) # Undefined =>
       /\ FooterRendered(props)
       /\ AriaDescribedBy(props) \in RenderedIds(props)
  /\ FooterRendered(props) => FooterId(props) = AriaDescribedBy(props)

====
